---- MODULE Spec2Model ----
(***************************************************************************)
(* Model of scenedetect.scene_manager.SceneManager: the event ledger, the  *)
(* scene assembly (get_scene_list / get_cut_list /                         *)
(* transform_events_to_cuts) and the detect_scenes frame loop.             *)
(*                                                                         *)
(* Timecodes are frame numbers (one frame rate throughout).  An optional   *)
(* value is a sequence: None is <<>> and a value v is <<v>>.               *)
(***************************************************************************)
EXTENDS Integers, Sequences, FiniteSets, TLC

\* ---------------------------------------------------------------- bounds
\* Number of frames of the video handed to detect_scenes.
NumFrames == 3
\* Largest number of events the ledger holds in the model.
MaxEvents == 3
\* Largest number of events in one add_events call.
MaxBatch == 2
\* Largest minimum_spacing passed to get_cut_list.
MaxSpacing == 3
\* Largest number of events the detectors add to the ledger in the model.
MaxDetected == 2
\* Largest number of registered detectors.
MaxDetectors == 2
\* Largest frame width of the video, in pixels.
MaxWidth == 600

\* ---------------------------------------------------------------- values
None == <<>>
Some(v) == <<v>>
Val(x) == x[1]

EventType == {"IN", "OUT", "CUT"}
Contexts == {"ctx_a", "ctx_b"}
Timecodes == 0 .. (NumFrames - 1)

DetectionEvent(kind, time, context) ==
    [kind |-> kind, time |-> time, context |-> context]

\* Events with one context value, and events with any context value.
PlainEvents == {DetectionEvent(k, t, "ctx_a") : k \in EventType, t \in Timecodes}
AllEvents == {DetectionEvent(k, t, c) : k \in EventType, t \in Timecodes, c \in Contexts}

\* All sequences over S of length 0 .. n.
SeqsUpTo(S, n) == UNION {[1 .. k -> S] : k \in 0 .. n}

\* transform_events_to_cuts arguments: None, the default 0.0, and 0.3.
FadeBias == {None, Some("0.0"), Some("0.3")}

VARIABLES
    events,          \* self._events: timecode -> sequence of events
    detectors,       \* self._detectors
    stats_manager,   \* self._stats_manager: None, or the identity of the cache
    metrics,         \* frame metrics stored in the cache: set of <<frame, key>>
    registered_metrics, \* metric keys registered with the cache
    start_pos,       \* self._start_pos
    last_pos,        \* self._last_pos
    only_cuts,       \* self._only_cuts
    downscale,       \* self._downscale
    auto_downscale,  \* self._auto_downscale
    video,           \* the frame source: [frame_number, length]
    pc,              \* position inside detect_scenes ("idle" when not running)
    locals,          \* local variables of the running detect_scenes call
    log,             \* accesses to the source and detectors made by the running call
    call,            \* the operation called last, with its arguments
    raised,          \* the exception the last operation raised, or "None"
    ret,             \* the value the last operation returned (None: nothing)
    progress_bar     \* the progress bar of the last detect_scenes call:
                     \* "None", "open" or "closed"

manager == <<events, detectors, stats_manager, metrics, registered_metrics, start_pos,
             last_pos, only_cuts, downscale, auto_downscale>>
vars == <<events, detectors, stats_manager, metrics, registered_metrics, start_pos, last_pos,
          only_cuts, downscale, auto_downscale, video, pc, locals, log, call, raised, ret,
          progress_bar>>

\* ---------------------------------------------------------------- ledger
\* Ascending sequence of the elements of a finite set of integers.
RECURSIVE sorted(_)
sorted(S) ==
    IF S = {} THEN <<>>
    ELSE LET m == CHOOSE x \in S : \A y \in S : x <= y
         IN  <<m>> \o sorted(S \ {m})

\* Variant of add_event that puts the event in front of the events of its timecode.
add_event_Prepend(ev, event) ==
    IF event.time \in DOMAIN ev
    THEN [ev EXCEPT ![event.time] = <<event>> \o @]
    ELSE [t \in (DOMAIN ev) \cup {event.time} |->
             IF t = event.time THEN <<event>> ELSE ev[t]]

\* One iteration of the loop of add_events on the dictionary.
add_event(ev, event) ==
    IF event.time \in DOMAIN ev
    THEN [ev EXCEPT ![event.time] = @ \o <<event>>]
    ELSE [t \in (DOMAIN ev) \cup {event.time} |->
             IF t = event.time THEN <<event>> ELSE ev[t]]

RECURSIVE add_events_dict(_, _)
add_events_dict(ev, batch) ==
    IF batch = <<>> THEN ev
    ELSE add_events_dict(add_event(ev, Head(batch)), Tail(batch))

\* Variant of add_events_only_cuts that follows the kind of the event added last.
add_events_only_cuts_Last(flag, batch) ==
    IF batch = <<>> THEN flag ELSE batch[Len(batch)].kind = "CUT"

\* self._only_cuts after add_events(batch).
add_events_only_cuts(flag, batch) ==
    IF \E i \in 1 .. Len(batch) : batch[i].kind /= "CUT" THEN FALSE ELSE flag

RECURSIVE SumLen(_, _)
SumLen(ev, keys) ==
    IF keys = {} THEN 0
    ELSE LET t == CHOOSE x \in keys : TRUE
         IN  Len(ev[t]) + SumLen(ev, keys \ {t})

NumEvents(ev) == SumLen(ev, DOMAIN ev)

\* ------------------------------------------------------- scene assembly
\* Variant of ProcessEvent without the added_new_scene guard.
ProcessEvent_NoGuard(st, event, timecode) ==
    IF event.kind = "IN"
    THEN [st EXCEPT !.in_scene = TRUE, !.last_event_pos = timecode]
    ELSE IF event.kind = "OUT"
    THEN IF st.in_scene
         THEN [st EXCEPT !.last_event_pos = timecode,
                         !.in_scene = FALSE,
                         !.scene_list = Append(@, <<st.last_event_pos, timecode>>),
                         !.added_new_scene = TRUE]
         ELSE st
    ELSE IF st.in_scene
         THEN [st EXCEPT !.scene_list = Append(@, <<st.last_event_pos, timecode>>),
                         !.added_new_scene = TRUE,
                         !.last_event_pos = timecode]
         ELSE st

\* Variant of ProcessEvent in which a CUT outside a scene starts a scene.
ProcessEvent_CutOpens(st, event, timecode) ==
    IF event.kind = "IN"
    THEN [st EXCEPT !.in_scene = TRUE, !.last_event_pos = timecode]
    ELSE IF event.kind = "OUT"
    THEN IF st.in_scene
         THEN [st EXCEPT !.last_event_pos = timecode,
                         !.in_scene = FALSE,
                         !.scene_list = IF st.added_new_scene THEN @
                                        ELSE Append(@, <<st.last_event_pos, timecode>>),
                         !.added_new_scene = TRUE]
         ELSE st
    ELSE IF st.in_scene
         THEN [st EXCEPT !.scene_list = IF st.added_new_scene THEN @
                                        ELSE Append(@, <<st.last_event_pos, timecode>>),
                         !.added_new_scene = TRUE,
                         !.last_event_pos = timecode]
         ELSE [st EXCEPT !.in_scene = TRUE, !.last_event_pos = timecode]

\* Variant of ProcessEvent in which a CUT leaves last_event_pos alone.
ProcessEvent_CutKeepsPos(st, event, timecode) ==
    IF event.kind = "IN"
    THEN [st EXCEPT !.in_scene = TRUE, !.last_event_pos = timecode]
    ELSE IF event.kind = "OUT"
    THEN IF st.in_scene
         THEN [st EXCEPT !.last_event_pos = timecode,
                         !.in_scene = FALSE,
                         !.scene_list = IF st.added_new_scene THEN @
                                        ELSE Append(@, <<st.last_event_pos, timecode>>),
                         !.added_new_scene = TRUE]
         ELSE st
    ELSE IF st.in_scene
         THEN [st EXCEPT !.scene_list = IF st.added_new_scene THEN @
                                        ELSE Append(@, <<st.last_event_pos, timecode>>),
                         !.added_new_scene = TRUE]
         ELSE st

\* Body of the inner loop of get_scene_list for one event.
ProcessEvent(st, event, timecode) ==
    IF event.kind = "IN"
    THEN [st EXCEPT !.in_scene = TRUE, !.last_event_pos = timecode]
    ELSE IF event.kind = "OUT"
    THEN IF st.in_scene
         THEN [st EXCEPT !.last_event_pos = timecode,
                         !.in_scene = FALSE,
                         !.scene_list = IF st.added_new_scene THEN @
                                        ELSE Append(@, <<st.last_event_pos, timecode>>),
                         !.added_new_scene = TRUE]
         ELSE st
    ELSE IF st.in_scene
         THEN [st EXCEPT !.scene_list = IF st.added_new_scene THEN @
                                        ELSE Append(@, <<st.last_event_pos, timecode>>),
                         !.added_new_scene = TRUE,
                         !.last_event_pos = timecode]
         ELSE st

RECURSIVE ProcessEventsAt(_, _, _)
ProcessEventsAt(st, evs, timecode) ==
    IF evs = <<>> THEN st
    ELSE ProcessEventsAt(ProcessEvent(st, Head(evs), timecode), Tail(evs), timecode)

\* The outer loop of get_scene_list over the sorted keys.
RECURSIVE ProcessTimecodes(_, _, _)
ProcessTimecodes(st, ev, keys) ==
    IF keys = <<>> THEN st
    ELSE ProcessTimecodes(
             ProcessEventsAt([st EXCEPT !.added_new_scene = FALSE], ev[Head(keys)], Head(keys)),
             ev, Tail(keys))

\* Variant of AssemblyState that starts in a scene whatever the flag is.
AssemblyState_InScene(ev, start, flag) ==
    ProcessTimecodes([in_scene |-> TRUE, last_event_pos |-> Val(start),
                      scene_list |-> <<>>, added_new_scene |-> FALSE],
                     ev, sorted(DOMAIN ev))

\* The assembly state after all events were processed.
AssemblyState(ev, start, flag) ==
    ProcessTimecodes([in_scene |-> flag, last_event_pos |-> Val(start),
                      scene_list |-> <<>>, added_new_scene |-> FALSE],
                     ev, sorted(DOMAIN ev))

\* Variant of get_scene_list_of that adds the final scene whenever
\* always_include_end is set, in a scene or not.
get_scene_list_of_AlwaysEnd(ev, start, last, flag, always_include_end) ==
    IF DOMAIN ev = {} THEN [raised |-> "None", value |-> <<>>]
    ELSE IF start = None THEN [raised |-> "AssertionError", value |-> <<>>]
    ELSE LET st == AssemblyState(ev, start, flag)
         IN  IF always_include_end
             THEN IF last = None
                  THEN [raised |-> "TypeError", value |-> <<>>]
                  ELSE [raised |-> "None",
                        value |-> Append(st.scene_list, <<st.last_event_pos, Val(last) + 1>>)]
             ELSE [raised |-> "None", value |-> st.scene_list]

\* get_scene_list on a manager with the given fields: the exception raised
\* ("None" when it returns) and the list returned.
get_scene_list_of(ev, start, last, flag, always_include_end) ==
    IF DOMAIN ev = {} THEN [raised |-> "None", value |-> <<>>]
    ELSE IF start = None THEN [raised |-> "AssertionError", value |-> <<>>]
    ELSE LET st == AssemblyState(ev, start, flag)
         IN  IF st.in_scene /\ always_include_end
             THEN IF last = None
                  THEN [raised |-> "TypeError", value |-> <<>>]
                  ELSE [raised |-> "None",
                        value |-> Append(st.scene_list, <<st.last_event_pos, Val(last) + 1>>)]
             ELSE [raised |-> "None", value |-> st.scene_list]

get_scene_list(always_include_end) ==
    get_scene_list_of(events, start_pos, last_pos, only_cuts, always_include_end)

\* Variant of HasCut that asks for every event of the timecode to be a CUT.
HasCut_All(ev, t) == \A i \in 1 .. Len(ev[t]) : ev[t][i].kind = "CUT"

\* A timecode of the ledger holds at least one CUT event.
HasCut(ev, t) == \E i \in 1 .. Len(ev[t]) : ev[t][i].kind = "CUT"

\* Variant of FilterCuts that keeps a cut only when it is more than
\* minimum_spacing after the cut kept last.
RECURSIVE FilterCuts_Strict(_, _, _)
FilterCuts_Strict(filtered_cuts, cuts, minimum_spacing) ==
    IF cuts = <<>> THEN filtered_cuts
    ELSE FilterCuts_Strict(
             IF Head(cuts) - filtered_cuts[Len(filtered_cuts)] > minimum_spacing
             THEN Append(filtered_cuts, Head(cuts)) ELSE filtered_cuts,
             Tail(cuts), minimum_spacing)

\* The filtering loop of get_cut_list.
RECURSIVE FilterCuts(_, _, _)
FilterCuts(filtered_cuts, cuts, minimum_spacing) ==
    IF cuts = <<>> THEN filtered_cuts
    ELSE FilterCuts(
             IF Head(cuts) - filtered_cuts[Len(filtered_cuts)] >= minimum_spacing
             THEN Append(filtered_cuts, Head(cuts)) ELSE filtered_cuts,
             Tail(cuts), minimum_spacing)

get_cut_list_of(ev, minimum_spacing) ==
    LET cuts == SelectSeq(sorted(DOMAIN ev), LAMBDA t : HasCut(ev, t))
    IN  IF minimum_spacing > 1 /\ Len(cuts) > 1
        THEN FilterCuts(SubSeq(cuts, 1, 1), Tail(cuts), minimum_spacing)
        ELSE cuts

get_cut_list(minimum_spacing) == get_cut_list_of(events, minimum_spacing)

\* Variant of EventsAsCuts that builds the CUT events without the context.
EventsAsCuts_NoContext(ev) ==
    [t \in DOMAIN ev |->
        [i \in 1 .. Len(ev[t]) |->
            DetectionEvent("CUT", ev[t][i].time, "ctx_a")]]

\* The ledger after transform_events_to_cuts(None).
EventsAsCuts(ev) ==
    [t \in DOMAIN ev |->
        [i \in 1 .. Len(ev[t]) |->
            DetectionEvent("CUT", ev[t][i].time, ev[t][i].context)]]

\* ---------------------------------------------------------- frame source
\* video.position: the position of the frame read last (0 before any read).
video_position(v) == IF v.frame_number < 1 THEN 0 ELSE v.frame_number - 1

\* video.read() / video.read(decode=False) / video.grab() succeed while a
\* frame is left, and then advance the source by one frame.
video_has_frame(v) == v.frame_number < v.length

video_advance(v, n) == [v EXCEPT !.frame_number = @ + n]

\* The default minimum width a frame is downscaled to.
DEFAULT_MIN_WIDTH == 256

compute_downscale_factor(frame_width, effective_width) ==
    IF frame_width < effective_width THEN 1 ELSE frame_width \div effective_width

\* The width of frame_im[::factor, ::factor, :] for a frame of the given
\* width; the frame is left as it is when the factor is 1.
subsample(frame_width, factor) ==
    IF factor > 1 THEN (frame_width + factor - 1) \div factor ELSE frame_width

\* Value of frame_im after a failed read (False in the code).
ReadFailed == -1

\* -------------------------------------------------------------- detectors
\* The detector variants that can be registered.
DetectorTypes ==
    { [requires_stats |-> TRUE,  metric_keys |-> {"content_val"}],
      [requires_stats |-> FALSE, metric_keys |-> {}] }

\* What process_frame / post_process of a detector may return at a position.
DetectorOutputs(timecode) ==
    {<<>>} \cup {<<DetectionEvent(k, timecode, "ctx_a")>> : k \in EventType}

\* detector.is_processing_required(frame_num): the detector has no metric
\* keys, or its metrics are missing from the cache for that frame.
detector_is_processing_required(d, frame_num) ==
    \/ d.metric_keys = {}
    \/ ~ (d.stats_manager /= None
            /\ \A k \in d.metric_keys : <<frame_num, k>> \in metrics)

_is_processing_required(frame_num) ==
    IF stats_manager = None THEN TRUE
    ELSE \A i \in 1 .. Len(detectors) :
            detector_is_processing_required(detectors[i], frame_num)

\* Detectors whose events are a function of the metric values of the frame:
\* one that needs a cache and one that uses a cache when it is given one.
MetricDetectorTypes ==
    { [requires_stats |-> TRUE,  metric_keys |-> {"content_val"}],
      [requires_stats |-> FALSE, metric_keys |-> {"content_val"}] }

\* The frames of the video whose metric value makes such a detector report a cut.
CutFrames == {1}

\* The detector finds its metrics for the frame in its cache.
metrics_cached(d, frame_num) ==
    d.stats_manager /= None /\ \A k \in d.metric_keys : <<frame_num, k>> \in metrics

\* The frame whose metric value the detector uses at a timecode: the frame
\* of the timecode when the metrics are cached, otherwise the frame it was
\* handed (None when it was handed no frame).
metric_frame(d, timecode, frame_im) ==
    IF metrics_cached(d, timecode) THEN Some(timecode) ELSE frame_im

\* What process_frame of such a detector returns for a metric value.
MetricEvents(timecode, frame) ==
    IF frame \in CutFrames THEN <<DetectionEvent("CUT", timecode, "ctx_a")>> ELSE <<>>

IdleLocals ==
    [end_time |-> None, frame_skip |-> 0, frame_im |-> None, det_i |-> 0,
     start_frame_num |-> 0, callback |-> FALSE, exc |-> "None",
     downscale_factor |-> 0, frame_im_width |-> 0]

\* ------------------------------------------------------------------ Init
InitManager ==
    /\ events = <<>>
    /\ detectors = <<>>
    /\ metrics = {}
    /\ registered_metrics = {}
    /\ start_pos = None
    /\ last_pos = None
    /\ only_cuts = TRUE
    /\ downscale = 1
    /\ auto_downscale = TRUE
    /\ pc = "idle"
    /\ locals = IdleLocals
    /\ log = <<>>
    /\ call = [op |-> "__init__"]
    /\ raised = "None"
    /\ ret = None
    /\ progress_bar = "None"

\* SceneManager() or SceneManager(stats_manager), and a video of NumFrames frames.
Init ==
    /\ InitManager
    /\ stats_manager \in {None, Some("passed")}
    /\ video = [frame_number |-> 0, length |-> NumFrames, frame_width |-> DEFAULT_MIN_WIDTH]

\* SceneManager() and a video of NumFrames frames.
InitAssembly ==
    /\ InitManager
    /\ stats_manager = None
    /\ video = [frame_number |-> 0, length |-> NumFrames, frame_width |-> DEFAULT_MIN_WIDTH]

\* --------------------------------------------------------------- actions
add_events(batch) ==
    /\ pc = "idle"
    /\ NumEvents(events) + Len(batch) <= MaxEvents
    /\ events' = add_events_dict(events, batch)
    /\ only_cuts' = add_events_only_cuts(only_cuts, batch)
    /\ call' = [op |-> "add_events"]
    /\ raised' = "None"
    /\ ret' = None
    /\ log' = <<>>
    /\ UNCHANGED <<registered_metrics, downscale, auto_downscale, detectors, stats_manager,
                   metrics, start_pos, last_pos, video, pc, locals, progress_bar>>

\* The values given to the downscale setter: integers and floats, as
\* fractions <<numerator, denominator>>.
DownscaleArgs == {<<0, 1>>, <<1, 2>>, <<1, 1>>, <<3, 2>>, <<2, 1>>, <<5, 2>>}

\* int(value) of a fraction that is not negative.
int(value) == value[1] \div value[2]

\* Variant of set_downscale that stores whatever it is given.
set_downscale_Unchecked(value) ==
    /\ pc = "idle"
    /\ raised' = "None"
    /\ downscale' = int(value)
    /\ call' = [op |-> "downscale", value |-> value]
    /\ ret' = None
    /\ log' = <<>>
    /\ UNCHANGED <<registered_metrics, events, detectors, stats_manager, metrics,
                   start_pos, last_pos, only_cuts, auto_downscale, video, pc, locals,
                   progress_bar>>

\* manager.downscale = value: a value below 1 is refused, a value that is
\* not an integer is truncated.
set_downscale(value) ==
    /\ pc = "idle"
    /\ IF value[1] < value[2]
       THEN /\ raised' = "ValueError"
            /\ UNCHANGED downscale
       ELSE /\ raised' = "None"
            /\ downscale' = int(value)
    /\ call' = [op |-> "downscale", value |-> value]
    /\ ret' = None
    /\ log' = <<>>
    /\ UNCHANGED <<registered_metrics, events, detectors, stats_manager, metrics,
                   start_pos, last_pos, only_cuts, auto_downscale, video, pc, locals,
                   progress_bar>>

\* manager.auto_downscale = value
set_auto_downscale(value) ==
    /\ pc = "idle"
    /\ auto_downscale' = value
    /\ call' = [op |-> "auto_downscale", value |-> value]
    /\ raised' = "None"
    /\ ret' = None
    /\ log' = <<>>
    /\ UNCHANGED <<registered_metrics, events, detectors, stats_manager, metrics,
                   start_pos, last_pos, only_cuts, downscale, video, pc, locals,
                   progress_bar>>

\* Variant of clear that forgets the last position as well.
clear_ResetLast ==
    /\ pc = "idle"
    /\ events' = <<>>
    /\ start_pos' = None
    /\ only_cuts' = TRUE
    /\ last_pos' = None
    /\ call' = [op |-> "clear"]
    /\ raised' = "None"
    /\ ret' = None
    /\ log' = <<>>
    /\ UNCHANGED <<registered_metrics, downscale, auto_downscale, detectors, stats_manager,
                   metrics, video, pc, locals, progress_bar>>

clear ==
    /\ pc = "idle"
    /\ events' = <<>>
    /\ start_pos' = None
    /\ only_cuts' = TRUE
    /\ call' = [op |-> "clear"]
    /\ raised' = "None"
    /\ ret' = None
    /\ log' = <<>>
    /\ UNCHANGED <<registered_metrics, downscale, auto_downscale, detectors, stats_manager,
                   metrics, last_pos, video, pc, locals, progress_bar>>

clear_detectors ==
    /\ pc = "idle"
    /\ detectors' = <<>>
    /\ call' = [op |-> "clear_detectors"]
    /\ raised' = "None"
    /\ ret' = None
    /\ log' = <<>>
    /\ UNCHANGED <<registered_metrics, downscale, auto_downscale, events, stats_manager,
                   metrics, start_pos, last_pos, only_cuts, video, pc, locals,
                   progress_bar>>

\* stats_manager.register_metrics(keys) raises FrameMetricRegistered: a key is
\* registered already.
register_metrics_raises(registered, keys) == keys \cap registered /= {}

\* The keys registered after register_metrics(keys), whether it raised or not
\* (the detectors have at most one key).
register_metrics(registered, keys) == registered \cup keys

\* Variant of add_detector in which a metric-key collision ends the call with
\* the error, before the detector is appended.
add_detector_Propagate(dtype) ==
    /\ pc = "idle"
    /\ Len(detectors) < MaxDetectors
    /\ LET sm == IF stats_manager = None /\ dtype.requires_stats
                 THEN Some("created") ELSE stats_manager
           collision == sm /= None /\ register_metrics_raises(registered_metrics,
                                                               dtype.metric_keys)
       IN  /\ stats_manager' = sm
           /\ registered_metrics' = IF sm /= None
                                    THEN register_metrics(registered_metrics, dtype.metric_keys)
                                    ELSE registered_metrics
           /\ detectors' = IF collision THEN detectors
                           ELSE Append(detectors,
                                  [requires_stats |-> dtype.requires_stats,
                                   metric_keys |-> dtype.metric_keys,
                                   stats_manager |-> sm])
           /\ raised' = IF collision THEN "FrameMetricRegistered" ELSE "None"
    /\ call' = [op |-> "add_detector"]
    /\ ret' = None
    /\ log' = <<>>
    /\ UNCHANGED <<downscale, auto_downscale, events, metrics, start_pos, last_pos,
                   only_cuts, video, pc, locals, progress_bar>>

\* add_detector: the cache is created when the detector needs one and none
\* exists; the detector is given the cache of the manager; its metric keys
\* are registered with the cache, and FrameMetricRegistered is caught; the
\* detector is appended.
add_detector(dtype) ==
    /\ pc = "idle"
    /\ Len(detectors) < MaxDetectors
    /\ LET sm == IF stats_manager = None /\ dtype.requires_stats
                 THEN Some("created") ELSE stats_manager
       IN  /\ stats_manager' = sm
           /\ registered_metrics' = IF sm /= None
                                    THEN register_metrics(registered_metrics, dtype.metric_keys)
                                    ELSE registered_metrics
           /\ detectors' = Append(detectors,
                  [requires_stats |-> dtype.requires_stats,
                   metric_keys |-> dtype.metric_keys,
                   stats_manager |-> sm])
    /\ call' = [op |-> "add_detector"]
    /\ raised' = "None"
    /\ ret' = None
    /\ log' = <<>>
    /\ UNCHANGED <<downscale, auto_downscale, events, metrics, start_pos, last_pos,
                   only_cuts, video, pc, locals, progress_bar>>

\* Variant of transform_events_to_cuts that returns silently for fade_bias 0.0.
transform_events_to_cuts_ZeroNoop(fade_bias) ==
    /\ pc = "idle"
    /\ IF fade_bias = None
       THEN /\ events' = EventsAsCuts(events)
            /\ raised' = "None"
       ELSE /\ raised' = IF fade_bias = Some("0.0") THEN "None" ELSE "NotImplementedError"
            /\ UNCHANGED events
    /\ call' = [op |-> "transform_events_to_cuts", fade_bias |-> fade_bias]
    /\ ret' = None
    /\ log' = <<>>
    /\ UNCHANGED <<registered_metrics, downscale, auto_downscale, detectors, stats_manager,
                   metrics, start_pos, last_pos, only_cuts, video, pc, locals,
                   progress_bar>>

\* Variant of transform_events_to_cuts that sets the only-cuts flag.
transform_events_to_cuts_SetsFlag(fade_bias) ==
    /\ pc = "idle"
    /\ IF fade_bias = None
       THEN /\ events' = EventsAsCuts(events)
            /\ only_cuts' = TRUE
            /\ raised' = "None"
       ELSE /\ raised' = "NotImplementedError"
            /\ UNCHANGED <<events, only_cuts>>
    /\ call' = [op |-> "transform_events_to_cuts", fade_bias |-> fade_bias]
    /\ ret' = None
    /\ log' = <<>>
    /\ UNCHANGED <<registered_metrics, downscale, auto_downscale, detectors, stats_manager,
                   metrics, start_pos, last_pos, video, pc, locals,
                   progress_bar>>

transform_events_to_cuts(fade_bias) ==
    /\ pc = "idle"
    /\ IF fade_bias = None
       THEN /\ events' = EventsAsCuts(events)
            /\ raised' = "None"
       ELSE /\ raised' = "NotImplementedError"
            /\ UNCHANGED events
    /\ call' = [op |-> "transform_events_to_cuts", fade_bias |-> fade_bias]
    /\ ret' = None
    /\ log' = <<>>
    /\ UNCHANGED <<registered_metrics, downscale, auto_downscale, detectors, stats_manager,
                   metrics, start_pos, last_pos, only_cuts, video, pc, locals,
                   progress_bar>>

\* Variant of detect_scenes_check without the duration / end_time conflict test.
detect_scenes_check_NoConflict(duration, end_time, frame_skip) ==
    IF frame_skip > 0 /\ stats_manager /= None THEN "ValueError"
    ELSE IF duration /= None /\ Val(duration) < 0 THEN "ValueError"
    ELSE IF end_time /= None /\ Val(end_time) < 0 THEN "ValueError"
    ELSE "None"

\* Variant of detect_scenes_check that refuses frame_skip only for a cache
\* passed at construction.
detect_scenes_check_PassedOnly(duration, end_time, frame_skip) ==
    IF frame_skip > 0 /\ stats_manager = Some("passed") THEN "ValueError"
    ELSE IF duration /= None /\ end_time /= None THEN "ValueError"
    ELSE IF duration /= None /\ Val(duration) < 0 THEN "ValueError"
    ELSE IF end_time /= None /\ Val(end_time) < 0 THEN "ValueError"
    ELSE "None"

\* Variant of detect_scenes_check without the tests for negative values.
detect_scenes_check_NoNegative(duration, end_time, frame_skip) ==
    IF frame_skip > 0 /\ stats_manager /= None THEN "ValueError"
    ELSE IF duration /= None /\ end_time /= None THEN "ValueError"
    ELSE "None"

\* The argument checks of detect_scenes: the error raised, or "None".
detect_scenes_check(duration, end_time, frame_skip) ==
    IF frame_skip > 0 /\ stats_manager /= None THEN "ValueError"
    ELSE IF duration /= None /\ end_time /= None THEN "ValueError"
    ELSE IF duration /= None /\ Val(duration) < 0 THEN "ValueError"
    ELSE IF end_time /= None /\ Val(end_time) < 0 THEN "ValueError"
    ELSE "None"

\* detect_scenes up to the start of the frame loop.
detect_scenes(duration, end_time, frame_skip, show_progress, callback) ==
    /\ pc = "idle"
    /\ call' = [op |-> "detect_scenes", duration |-> duration,
                end_time |-> end_time, frame_skip |-> frame_skip,
                show_progress |-> show_progress, callback |-> callback]
    /\ log' = <<>>
    /\ raised' = detect_scenes_check(duration, end_time, frame_skip)
    /\ ret' = None
    /\ IF detect_scenes_check(duration, end_time, frame_skip) /= "None"
       THEN /\ progress_bar' = "None"
            /\ UNCHANGED <<manager, video, pc, locals>>
       ELSE /\ pc' = "loop"
            /\ progress_bar' = IF show_progress THEN "open" ELSE "None"
            /\ locals' = [end_time |-> IF duration /= None
                                       THEN Some(Val(duration) + video.frame_number)
                                       ELSE end_time,
                          frame_skip |-> frame_skip,
                          frame_im |-> None,
                          det_i |-> 0,
                          start_frame_num |-> video.frame_number,
                          callback |-> callback,
                          exc |-> "None",
                          downscale_factor |->
                              IF auto_downscale
                              THEN compute_downscale_factor(video.frame_width,
                                                            DEFAULT_MIN_WIDTH)
                              ELSE downscale,
                          frame_im_width |-> 0]
            /\ UNCHANGED <<manager, video>>

\* Variant of loop_read that asks only about the current frame index.
loop_read_CurrentOnly ==
    /\ pc = "loop"
    /\ LET required == _is_processing_required(video.frame_number)
       IN  IF video_has_frame(video)
           THEN /\ video' = video_advance(video, 1)
                /\ locals' = [locals EXCEPT
                       !.frame_im = IF required THEN Some(video.frame_number) ELSE @,
                       !.frame_im_width =
                           IF required
                           THEN subsample(video.frame_width, locals.downscale_factor)
                           ELSE @,
                       !.det_i = 1]
                /\ start_pos' = IF start_pos = None
                                THEN Some(video_position(video_advance(video, 1)))
                                ELSE start_pos
                /\ log' = Append(log, <<"read", required, TRUE>>)
                /\ pc' = "dispatch"
           ELSE /\ locals' = [locals EXCEPT
                       !.frame_im = IF required THEN Some(ReadFailed) ELSE @,
                       !.det_i = 1]
                /\ start_pos' = IF start_pos = None
                                THEN Some(video_position(video)) ELSE start_pos
                /\ log' = Append(log, <<"read", required, FALSE>>)
                /\ pc' = "post_process"
                /\ UNCHANGED video
    /\ UNCHANGED <<registered_metrics, downscale, auto_downscale, events, detectors,
                   stats_manager, metrics, last_pos, only_cuts, call, raised, ret,
                   progress_bar>>

\* Variant of loop_read that records the start position in every iteration.
loop_read_Restart ==
    /\ pc = "loop"
    /\ LET required == \/ _is_processing_required(video.frame_number)
                       \/ _is_processing_required(video.frame_number + 1)
       IN  IF video_has_frame(video)
           THEN /\ video' = video_advance(video, 1)
                /\ locals' = [locals EXCEPT
                       !.frame_im = IF required THEN Some(video.frame_number) ELSE @,
                       !.frame_im_width =
                           IF required
                           THEN subsample(video.frame_width, locals.downscale_factor)
                           ELSE @,
                       !.det_i = 1]
                /\ start_pos' = IF TRUE
                                THEN Some(video_position(video_advance(video, 1)))
                                ELSE start_pos
                /\ log' = Append(log, <<"read", required, TRUE>>)
                /\ pc' = "dispatch"
           ELSE /\ locals' = [locals EXCEPT
                       !.frame_im = IF required THEN Some(ReadFailed) ELSE @,
                       !.det_i = 1]
                /\ start_pos' = IF TRUE
                                THEN Some(video_position(video)) ELSE start_pos
                /\ log' = Append(log, <<"read", required, FALSE>>)
                /\ pc' = "post_process"
                /\ UNCHANGED video
    /\ UNCHANGED <<registered_metrics, downscale, auto_downscale, events, detectors,
                   stats_manager, metrics, last_pos, only_cuts, call, raised, ret,
                   progress_bar>>

\* Variant of loop_read that leaves the source where it is when it does not decode.
loop_read_Stall ==
    /\ pc = "loop"
    /\ LET required == \/ _is_processing_required(video.frame_number)
                       \/ _is_processing_required(video.frame_number + 1)
       IN  IF video_has_frame(video)
           THEN /\ video' = IF required THEN video_advance(video, 1) ELSE video
                /\ locals' = [locals EXCEPT
                       !.frame_im = IF required THEN Some(video.frame_number) ELSE @,
                       !.frame_im_width =
                           IF required
                           THEN subsample(video.frame_width, locals.downscale_factor)
                           ELSE @,
                       !.det_i = 1]
                /\ start_pos' = IF start_pos = None
                                THEN Some(video_position(video_advance(video, 1)))
                                ELSE start_pos
                /\ log' = Append(log, <<"read", required, TRUE>>)
                /\ pc' = "dispatch"
           ELSE /\ locals' = [locals EXCEPT
                       !.frame_im = IF required THEN Some(ReadFailed) ELSE @,
                       !.det_i = 1]
                /\ start_pos' = IF start_pos = None
                                THEN Some(video_position(video)) ELSE start_pos
                /\ log' = Append(log, <<"read", required, FALSE>>)
                /\ pc' = "post_process"
                /\ UNCHANGED video
    /\ UNCHANGED <<registered_metrics, downscale, auto_downscale, events, detectors,
                   stats_manager, metrics, last_pos, only_cuts, call, raised, ret,
                   progress_bar>>

\* One pass of the loop up to the call of _process_frame: read or skip a
\* frame.  When the read fails the loop is left, and the statement after the
\* loop records the start position of a run that read no frame.
loop_read ==
    /\ pc = "loop"
    /\ LET required == \/ _is_processing_required(video.frame_number)
                       \/ _is_processing_required(video.frame_number + 1)
       IN  IF video_has_frame(video)
           THEN /\ video' = video_advance(video, 1)
                /\ locals' = [locals EXCEPT
                       !.frame_im = IF required THEN Some(video.frame_number) ELSE @,
                       !.frame_im_width =
                           IF required
                           THEN subsample(video.frame_width, locals.downscale_factor)
                           ELSE @,
                       !.det_i = 1]
                /\ start_pos' = IF start_pos = None
                                THEN Some(video_position(video_advance(video, 1)))
                                ELSE start_pos
                /\ log' = Append(log, <<"read", required, TRUE>>)
                /\ pc' = "dispatch"
           ELSE /\ locals' = [locals EXCEPT
                       !.frame_im = IF required THEN Some(ReadFailed) ELSE @,
                       !.det_i = 1]
                /\ start_pos' = IF start_pos = None
                                THEN Some(video_position(video)) ELSE start_pos
                /\ log' = Append(log, <<"read", required, FALSE>>)
                /\ pc' = "post_process"
                /\ UNCHANGED video
    /\ UNCHANGED <<registered_metrics, downscale, auto_downscale, events, detectors,
                   stats_manager, metrics, last_pos, only_cuts, call, raised, ret,
                   progress_bar>>

\* Variant of process_frame that drops the events the detector returned.
process_frame_NoMerge ==
    /\ pc = "dispatch"
    /\ locals.det_i <= Len(detectors)
    /\ LET timecode == video_position(video)
           d == detectors[locals.det_i]
       IN  /\ \E batch \in DetectorOutputs(timecode) :
                 /\ NumEvents(events) + Len(batch) <= MaxDetected
                 /\ events' = events
                 /\ only_cuts' = add_events_only_cuts(only_cuts, batch)
                 /\ log' = Append(log, <<"process_frame", locals.det_i, timecode,
                                         locals.frame_im>>)
                            \o (IF batch /= <<>> /\ locals.callback
                                THEN <<<<"callback", locals.frame_im, timecode>>>>
                                ELSE <<>>)
           /\ metrics' = IF d.stats_manager /= None /\ locals.frame_im /= None
                         THEN metrics \cup {<<timecode, k>> : k \in d.metric_keys}
                         ELSE metrics
    /\ locals' = [locals EXCEPT !.det_i = @ + 1]
    /\ UNCHANGED <<registered_metrics, downscale, auto_downscale, detectors, stats_manager,
                   start_pos, last_pos, video, pc, call, raised, ret, progress_bar>>

\* _process_frame for one detector: process_frame, then add_events, then the
\* callback when the detector returned events.
process_frame ==
    /\ pc = "dispatch"
    /\ locals.det_i <= Len(detectors)
    /\ LET timecode == video_position(video)
           d == detectors[locals.det_i]
       IN  /\ \E batch \in DetectorOutputs(timecode) :
                 /\ NumEvents(events) + Len(batch) <= MaxDetected
                 /\ events' = add_events_dict(events, batch)
                 /\ only_cuts' = add_events_only_cuts(only_cuts, batch)
                 /\ log' = Append(log, <<"process_frame", locals.det_i, timecode,
                                         locals.frame_im>>)
                            \o (IF batch /= <<>> /\ locals.callback
                                THEN <<<<"callback", locals.frame_im, timecode>>>>
                                ELSE <<>>)
           /\ metrics' = IF d.stats_manager /= None /\ locals.frame_im /= None
                         THEN metrics \cup {<<timecode, k>> : k \in d.metric_keys}
                         ELSE metrics
    /\ locals' = [locals EXCEPT !.det_i = @ + 1]
    /\ UNCHANGED <<registered_metrics, downscale, auto_downscale, detectors, stats_manager,
                   start_pos, last_pos, video, pc, call, raised, ret, progress_bar>>

\* Variant of loop_skip that ignores frame_skip.
loop_skip_NoGrab ==
    /\ pc = "dispatch"
    /\ locals.det_i > Len(detectors)
    /\ LET left == video.length - video.frame_number
           grabbed == 0
           tried == 0
           v == video_advance(video, grabbed)
       IN  /\ video' = v
           /\ log' = log \o [i \in 1 .. tried |-> <<"grab", i <= grabbed>>]
           /\ IF locals.end_time /= None /\ video_position(v) >= Val(locals.end_time)
              THEN /\ pc' = "post_process"
                   /\ locals' = [locals EXCEPT !.det_i = 1]
                   /\ start_pos' = IF start_pos = None
                                   THEN Some(video_position(v)) ELSE start_pos
              ELSE /\ pc' = "loop"
                   /\ UNCHANGED <<locals, start_pos>>
    /\ UNCHANGED <<registered_metrics, downscale, auto_downscale, events, detectors,
                   stats_manager, metrics, last_pos, only_cuts, call, raised, ret,
                   progress_bar>>

\* The rest of the pass: the frame_skip grabs and the end_time test.  The
\* start position is set by then, so the statement after the loop keeps it.
loop_skip ==
    /\ pc = "dispatch"
    /\ locals.det_i > Len(detectors)
    /\ LET left == video.length - video.frame_number
           grabbed == IF locals.frame_skip <= left THEN locals.frame_skip ELSE left
           tried == IF locals.frame_skip <= left THEN locals.frame_skip ELSE left + 1
           v == video_advance(video, grabbed)
       IN  /\ video' = v
           /\ log' = log \o [i \in 1 .. tried |-> <<"grab", i <= grabbed>>]
           /\ IF locals.end_time /= None /\ video_position(v) >= Val(locals.end_time)
              THEN /\ pc' = "post_process"
                   /\ locals' = [locals EXCEPT !.det_i = 1]
                   /\ start_pos' = IF start_pos = None
                                   THEN Some(video_position(v)) ELSE start_pos
              ELSE /\ pc' = "loop"
                   /\ UNCHANGED <<locals, start_pos>>
    /\ UNCHANGED <<registered_metrics, downscale, auto_downscale, events, detectors,
                   stats_manager, metrics, last_pos, only_cuts, call, raised, ret,
                   progress_bar>>

\* Variant of post_process that drops the events the detector returned.
post_process_NoMerge ==
    /\ pc = "post_process"
    /\ locals.det_i <= Len(detectors)
    /\ LET timecode == video_position(video)
       IN  /\ \E batch \in DetectorOutputs(timecode) :
                 /\ NumEvents(events) + Len(batch) <= MaxDetected
                 /\ log' = Append(log, <<"post_process", locals.det_i, Val(start_pos),
                                         timecode, batch>>)
    /\ locals' = [locals EXCEPT !.det_i = @ + 1]
    /\ UNCHANGED <<registered_metrics, downscale, auto_downscale, events, only_cuts,
                   detectors, stats_manager, metrics, start_pos, last_pos, video, pc, call,
                   raised, ret, progress_bar>>

\* _post_process for one detector: post_process, then add_events.
post_process ==
    /\ pc = "post_process"
    /\ locals.det_i <= Len(detectors)
    /\ LET timecode == video_position(video)
       IN  /\ \E batch \in DetectorOutputs(timecode) :
                 /\ NumEvents(events) + Len(batch) <= MaxDetected
                 /\ events' = add_events_dict(events, batch)
                 /\ only_cuts' = add_events_only_cuts(only_cuts, batch)
                 /\ log' = Append(log, <<"post_process", locals.det_i, Val(start_pos),
                                         timecode, batch>>)
    /\ locals' = [locals EXCEPT !.det_i = @ + 1]
    /\ UNCHANGED <<registered_metrics, downscale, auto_downscale, detectors, stats_manager,
                   metrics, start_pos, last_pos, video, pc, call, raised, ret,
                   progress_bar>>

\* Variant of detect_scenes_return that returns the difference of the
\* positions of the frames read last.
detect_scenes_return_Position ==
    /\ pc = "post_process"
    /\ locals.det_i > Len(detectors)
    /\ progress_bar' = IF progress_bar = "open" THEN "closed" ELSE progress_bar
    /\ last_pos' = Some(video_position(video))
    /\ ret' = Some(video_position(video)
                      - (IF locals.start_frame_num < 1 THEN 0 ELSE locals.start_frame_num - 1))
    /\ locals' = IdleLocals
    /\ log' = <<>>
    /\ pc' = "idle"
    /\ UNCHANGED <<registered_metrics, downscale, auto_downscale, events, detectors,
                   stats_manager, metrics, start_pos, only_cuts, video, call, raised>>

\* The end of detect_scenes: the progress bar is closed, the last position is
\* recorded and the number of frames the source advanced is returned.
detect_scenes_return ==
    /\ pc = "post_process"
    /\ locals.det_i > Len(detectors)
    /\ progress_bar' = IF progress_bar = "open" THEN "closed" ELSE progress_bar
    /\ last_pos' = Some(video_position(video))
    /\ ret' = Some(video.frame_number - locals.start_frame_num)
    /\ locals' = IdleLocals
    /\ log' = <<>>
    /\ pc' = "idle"
    /\ UNCHANGED <<registered_metrics, downscale, auto_downscale, events, detectors,
                   stats_manager, metrics, start_pos, only_cuts, video, call, raised>>

\* video.reset(), called when the source is exhausted: it is rewound to its
\* first frame.
video_reset ==
    /\ pc = "idle"
    /\ ~ video_has_frame(video)
    /\ video' = [video EXCEPT !.frame_number = 0]
    /\ call' = [op |-> "video.reset"]
    /\ raised' = "None"
    /\ ret' = None
    /\ log' = <<>>
    /\ UNCHANGED <<manager, pc, locals, progress_bar>>

\* The exit of a running call by an exception: the values it leaves behind.
\* An error raised inside the try block is pending while the finally block runs.
raise_in_loop(exc) ==
    /\ locals' = [locals EXCEPT !.exc = exc]
    /\ pc' = "finally"

\* video.read() raises while it decodes a frame.
read_raises ==
    /\ pc = "loop"
    /\ video_has_frame(video)
    /\ \/ _is_processing_required(video.frame_number)
       \/ _is_processing_required(video.frame_number + 1)
    /\ raise_in_loop("DecodeError")
    /\ log' = Append(log, <<"read", TRUE, "raise">>)
    /\ UNCHANGED <<manager, video, call, raised, ret, progress_bar>>

\* detector.process_frame raises: nothing is added for that detector.
process_frame_raises ==
    /\ pc = "dispatch"
    /\ locals.det_i <= Len(detectors)
    /\ raise_in_loop("DetectorError")
    /\ log' = Append(log, <<"process_frame", locals.det_i, video_position(video),
                            locals.frame_im>>)
    /\ UNCHANGED <<manager, video, call, raised, ret, progress_bar>>

\* The callback raises: the events of the detector were added before it ran.
callback_raises ==
    /\ pc = "dispatch"
    /\ locals.det_i <= Len(detectors)
    /\ locals.callback
    /\ LET timecode == video_position(video)
           d == detectors[locals.det_i]
       IN  /\ \E batch \in DetectorOutputs(timecode) \ {<<>>} :
                 /\ NumEvents(events) + Len(batch) <= MaxDetected
                 /\ events' = add_events_dict(events, batch)
                 /\ only_cuts' = add_events_only_cuts(only_cuts, batch)
           /\ metrics' = IF d.stats_manager /= None /\ locals.frame_im /= None
                         THEN metrics \cup {<<timecode, k>> : k \in d.metric_keys}
                         ELSE metrics
           /\ log' = log \o << <<"process_frame", locals.det_i, timecode, locals.frame_im>>,
                                <<"callback", locals.frame_im, timecode>> >>
    /\ raise_in_loop("CallbackError")
    /\ UNCHANGED <<registered_metrics, downscale, auto_downscale, detectors, stats_manager,
                   start_pos, last_pos, video, call, raised, ret, progress_bar>>

\* detector.post_process raises.
post_process_raises ==
    /\ pc = "post_process"
    /\ locals.det_i <= Len(detectors)
    /\ raise_in_loop("DetectorError")
    /\ log' = Append(log, <<"post_process", locals.det_i, Val(start_pos),
                            video_position(video), <<>>>>)
    /\ UNCHANGED <<manager, video, call, raised, ret, progress_bar>>

\* _process_frame for one detector whose events follow from its metrics.
process_frame_metric ==
    /\ pc = "dispatch"
    /\ locals.det_i <= Len(detectors)
    /\ LET timecode == video_position(video)
           d == detectors[locals.det_i]
           frame == metric_frame(d, timecode, locals.frame_im)
       IN  /\ frame /= None
           /\ LET batch == MetricEvents(timecode, Val(frame))
              IN  /\ NumEvents(events) + Len(batch) <= MaxDetected
                  /\ events' = add_events_dict(events, batch)
                  /\ only_cuts' = add_events_only_cuts(only_cuts, batch)
           /\ metrics' = IF d.stats_manager /= None
                         THEN metrics \cup {<<timecode, k>> : k \in d.metric_keys}
                         ELSE metrics
           /\ log' = Append(log, <<"process_frame", locals.det_i, timecode, locals.frame_im>>)
    /\ locals' = [locals EXCEPT !.det_i = @ + 1]
    /\ UNCHANGED <<registered_metrics, downscale, auto_downscale, detectors, stats_manager,
                   start_pos, last_pos, video, pc, call, raised, ret, progress_bar>>

\* Such a detector is handed no frame and has no cached metrics: it raises.
process_frame_metric_raises ==
    /\ pc = "dispatch"
    /\ locals.det_i <= Len(detectors)
    /\ metric_frame(detectors[locals.det_i], video_position(video), locals.frame_im) = None
    /\ raise_in_loop("DetectorError")
    /\ log' = Append(log, <<"process_frame", locals.det_i, video_position(video),
                            locals.frame_im>>)
    /\ UNCHANGED <<manager, video, call, raised, ret, progress_bar>>

\* _post_process for one such detector: it returns no events.
post_process_metric ==
    /\ pc = "post_process"
    /\ locals.det_i <= Len(detectors)
    /\ log' = Append(log, <<"post_process", locals.det_i, Val(start_pos),
                            video_position(video), <<>>>>)
    /\ locals' = [locals EXCEPT !.det_i = @ + 1]
    /\ UNCHANGED <<manager, video, pc, call, raised, ret, progress_bar>>

\* Variant of detect_scenes_propagate that leaves the progress bar open.
detect_scenes_propagate_NoClose ==
    /\ pc = "finally"
    /\ raised' = locals.exc
    /\ ret' = None
    /\ locals' = IdleLocals
    /\ log' = <<>>
    /\ pc' = "idle"
    /\ UNCHANGED <<manager, video, call, progress_bar>>

\* Variant of detect_scenes_propagate that records the last position.
detect_scenes_propagate_SetLast ==
    /\ pc = "finally"
    /\ progress_bar' = IF progress_bar = "open" THEN "closed" ELSE progress_bar
    /\ raised' = locals.exc
    /\ ret' = None
    /\ locals' = IdleLocals
    /\ log' = <<>>
    /\ pc' = "idle"
    /\ last_pos' = Some(video_position(video))
    /\ UNCHANGED <<events, detectors, stats_manager, metrics, registered_metrics, start_pos,
                   only_cuts, downscale, auto_downscale, video, call>>

\* The finally block with an error pending: the progress bar is closed and
\* the error leaves detect_scenes; the last position is not recorded.
detect_scenes_propagate ==
    /\ pc = "finally"
    /\ progress_bar' = IF progress_bar = "open" THEN "closed" ELSE progress_bar
    /\ raised' = locals.exc
    /\ ret' = None
    /\ locals' = IdleLocals
    /\ log' = <<>>
    /\ pc' = "idle"
    /\ UNCHANGED <<manager, video, call>>

\* The errors a running detect_scenes call can meet, and their way out.
DetectErrors ==
    \/ read_raises
    \/ process_frame_raises
    \/ callback_raises
    \/ post_process_raises
    \/ detect_scenes_propagate

\* Variant of call_get_scene_list that leaves the only-cuts flag cleared.
call_get_scene_list_Consume(always_include_end) ==
    /\ pc = "idle"
    /\ call' = [op |-> "get_scene_list", always_include_end |-> always_include_end]
    /\ raised' = get_scene_list(always_include_end).raised
    /\ ret' = IF get_scene_list(always_include_end).raised = "None"
              THEN Some(get_scene_list(always_include_end).value) ELSE None
    /\ log' = <<>>
    /\ only_cuts' = FALSE
    /\ UNCHANGED <<registered_metrics, downscale, auto_downscale, events, detectors,
                   stats_manager, metrics, start_pos, last_pos, video, pc, locals,
                   progress_bar>>

\* A call of get_scene_list: the list is returned, or the failure raised.
call_get_scene_list(always_include_end) ==
    /\ pc = "idle"
    /\ call' = [op |-> "get_scene_list", always_include_end |-> always_include_end]
    /\ raised' = get_scene_list(always_include_end).raised
    /\ ret' = IF get_scene_list(always_include_end).raised = "None"
              THEN Some(get_scene_list(always_include_end).value) ELSE None
    /\ log' = <<>>
    /\ UNCHANGED <<manager, video, pc, locals, progress_bar>>

\* Arguments of detect_scenes in the orchestrator specification.
DurationArgs == {None, Some(0), Some(1)}
EndTimeArgs == {None, Some(1)}
FrameSkipArgs == {0, 1}

\* The frame loop and the finalization of a running detect_scenes call.
DetectRun ==
    \/ loop_read
    \/ loop_skip
    \/ detect_scenes_return

\* ---------------------------------------------------------------- specs
\* Length of the longest batch add_events can take within the bounds.
BatchRoom ==
    IF MaxEvents - NumEvents(events) < MaxBatch
    THEN MaxEvents - NumEvents(events) ELSE MaxBatch

\* The ledger and the scene assembly: events are added by the caller, and
\* detect_scenes runs without detectors, each run from where the last one
\* left the video.
NextAssembly ==
    \/ \E batch \in SeqsUpTo(PlainEvents, BatchRoom) : add_events(batch)
    \/ clear
    \/ \E fade_bias \in FadeBias : transform_events_to_cuts(fade_bias)
    \/ \E end_time \in EndTimeArgs : detect_scenes(None, end_time, 0, FALSE, FALSE)
    \/ DetectRun

SpecAssembly == InitAssembly /\ [][NextAssembly]_vars

\* The ledger alone, with events of any context: no detection run.
NextTransform ==
    \/ \E batch \in SeqsUpTo(AllEvents, BatchRoom) : add_events(batch)
    \/ clear
    \/ \E fade_bias \in FadeBias : transform_events_to_cuts(fade_bias)

SpecTransform == InitAssembly /\ [][NextTransform]_vars

\* The orchestrator: detectors are registered and detect_scenes runs them;
\* the ledger receives the events the detectors return.
Next ==
    \/ \E dtype \in DetectorTypes : add_detector(dtype)
    \/ clear_detectors
    \/ clear
    \/ \E duration \in DurationArgs, end_time \in EndTimeArgs, frame_skip \in FrameSkipArgs :
          detect_scenes(duration, end_time, frame_skip, FALSE, FALSE)
    \/ DetectRun
    \/ process_frame
    \/ post_process

Spec == Init /\ [][Next]_vars

\* Registration and detection only: nothing is cleared between the runs.
NextDetect ==
    \/ \E dtype \in DetectorTypes : add_detector(dtype)
    \/ \E duration \in DurationArgs, end_time \in EndTimeArgs, frame_skip \in FrameSkipArgs :
          detect_scenes(duration, end_time, frame_skip, FALSE, FALSE)
    \/ DetectRun
    \/ process_frame
    \/ post_process

SpecDetect == Init /\ [][NextDetect]_vars

\* Calls of detect_scenes with valid and invalid limits: duration, end_time
\* and frame_skip.
ArgCalls ==
    { <<None, None, 0>>, <<None, None, 1>>, <<Some(0), None, 0>>, <<Some(1), None, 0>>,
      <<Some(-1), None, 0>>, <<None, Some(-1), 0>>, <<Some(-1), Some(-1), 1>>,
      <<Some(0), Some(1), 0>> }

\* Registration of detectors that need no cache, and detection with valid
\* and invalid limits.
NextArgs ==
    \/ \E dtype \in {d \in DetectorTypes : ~ d.requires_stats} : add_detector(dtype)
    \/ \E args \in ArgCalls : detect_scenes(args[1], args[2], args[3], FALSE, FALSE)
    \/ DetectRun
    \/ process_frame
    \/ post_process

\* Calls of detect_scenes with an end boundary or a frame skip: duration,
\* end_time and frame_skip.
LimitCalls ==
    { <<None, Some(1), 0>>, <<Some(1), None, 0>>, <<None, None, 1>>, <<None, Some(1), 1>>,
      <<None, None, 2>> }

\* Detection with an end boundary or a frame skip by detectors that need no
\* cache; a later run starts where the run before it left the source.
NextLimits ==
    \/ \E dtype \in {d \in DetectorTypes : ~ d.requires_stats} : add_detector(dtype)
    \/ \E args \in LimitCalls : detect_scenes(args[1], args[2], args[3], FALSE, FALSE)
    \/ DetectRun
    \/ process_frame
    \/ post_process

SpecLimits == InitAssembly /\ [][NextLimits]_vars

\* Calls of detect_scenes without and with an end boundary and a frame skip.
TerminateCalls ==
    { <<None, None, 0>>, <<None, Some(0), 0>>, <<None, Some(1), 0>>, <<Some(1), None, 0>>,
      <<None, None, 1>> }

\* A step of a running detect_scenes call whose detectors return no event.
RunStep ==
    \/ DetectRun
    \/ process_frame /\ events' = events
    \/ post_process /\ events' = events

\* Runs of detectors that return, with and without a cache, from any
\* position of the source, which is rewound when it is exhausted.
NextTerminate ==
    \/ \E dtype \in DetectorTypes : add_detector(dtype)
    \/ \E args \in TerminateCalls : detect_scenes(args[1], args[2], args[3], FALSE, FALSE)
    \/ video_reset
    \/ RunStep

\* A call that has started keeps running: the caller of detect_scenes is
\* blocked until the call is over.
SpecTerminate == InitAssembly /\ [][NextTerminate]_vars /\ WF_vars(RunStep)

\* The ledger filled by the caller and by a detection run with detectors
\* that need no cache.
NextLedger ==
    \/ \E batch \in SeqsUpTo(PlainEvents, BatchRoom) : add_events(batch)
    \/ clear
    \/ transform_events_to_cuts(None)
    \/ \E dtype \in {d \in DetectorTypes : ~ d.requires_stats} : add_detector(dtype)
    \/ detect_scenes(None, None, 0, FALSE, FALSE)
    \/ DetectRun
    \/ process_frame
    \/ post_process

SpecLedger == InitAssembly /\ [][NextLedger]_vars

\* The settings of the manager, its cache and its ledger: the downscale
\* settings are changed, and a detector with a cache fills the ledger and the
\* cache in a detection run.
NextSettings ==
    \/ \E dtype \in {d \in DetectorTypes : d.requires_stats} : add_detector(dtype)
    \/ clear
    \/ \E value \in DownscaleArgs : set_downscale(value)
    \/ \E value \in BOOLEAN : set_auto_downscale(value)
    \/ detect_scenes(None, None, 0, FALSE, FALSE)
    \/ DetectRun
    \/ process_frame
    \/ post_process

SpecSettings == InitAssembly /\ [][NextSettings]_vars

\* SceneManager() and a video of NumFrames frames of any width up to MaxWidth.
InitDownscale ==
    /\ InitManager
    /\ stats_manager = None
    /\ video \in [frame_number : {0}, length : {NumFrames}, frame_width : 1 .. MaxWidth]

\* The downscale settings and a detection run that applies them.
NextDownscale ==
    \/ \E value \in DownscaleArgs : set_downscale(value)
    \/ \E value \in BOOLEAN : set_auto_downscale(value)
    \/ /\ video.frame_number = 0
       /\ detect_scenes(None, Some(0), 0, FALSE, FALSE)
    \/ DetectRun

SpecDownscale == InitDownscale /\ [][NextDownscale]_vars

\* Runs over the whole source, which is rewound when it is exhausted, so that
\* later runs replay the frames whose metrics are cached.
NextReplay ==
    \/ \E dtype \in DetectorTypes : add_detector(dtype)
    \/ \E frame_skip \in FrameSkipArgs : detect_scenes(None, None, frame_skip, FALSE, FALSE)
    \/ video_reset
    \/ DetectRun
    \/ process_frame
    \/ post_process

SpecReplay == Init /\ [][NextReplay]_vars

SpecArgs == Init /\ [][NextArgs]_vars

\* Calls of detect_scenes with and without a progress bar and a callback:
\* end_time, show_progress and callback.
ErrorCalls ==
    { <<None, FALSE, FALSE>>, <<None, TRUE, TRUE>>, <<Some(1), TRUE, TRUE>> }

\* Runs with a progress bar and a callback, in which the source, a detector
\* or the callback may raise.  The detectors need no cache.
NextErrors ==
    \/ \E dtype \in {d \in DetectorTypes : ~ d.requires_stats} : add_detector(dtype)
    \/ \E args \in ErrorCalls : detect_scenes(None, args[1], 0, args[2], args[3])
    \/ DetectRun
    \/ process_frame
    \/ post_process
    \/ DetectErrors

SpecErrors == InitAssembly /\ [][NextErrors]_vars

\* Runs of metric-driven detectors over the whole source, each started on an
\* empty ledger with the source at its first frame; the cache keeps the
\* metrics of earlier runs.
NextCache ==
    \/ \E dtype \in MetricDetectorTypes : add_detector(dtype)
    \/ clear
    \/ video_reset
    \/ /\ DOMAIN events = {}
       /\ video.frame_number = 0
       /\ detect_scenes(None, None, 0, FALSE, FALSE)
    \/ DetectRun
    \/ process_frame_metric
    \/ process_frame_metric_raises
    \/ post_process_metric
    \/ detect_scenes_propagate

SpecCache == InitAssembly /\ [][NextCache]_vars

\* The ledger and its readers: events are added by the caller in any order,
\* detect_scenes runs without detectors, and get_scene_list is called.
NextRead ==
    \/ \E batch \in SeqsUpTo(PlainEvents, BatchRoom) : add_events(batch)
    \/ clear
    \/ \E end_time \in EndTimeArgs : detect_scenes(None, end_time, 0, FALSE, FALSE)
    \/ DetectRun
    \/ \E always_include_end \in BOOLEAN : call_get_scene_list(always_include_end)

SpecRead == InitAssembly /\ [][NextRead]_vars

\* ---------------------------------------------------------------- claims
CutTimecodes == {t \in DOMAIN events : HasCut(events, t)}
OnlyCutEvents == \A t \in DOMAIN events : \A i \in 1 .. Len(events[t]) : events[t][i].kind = "CUT"
NumEnding(l, t) == Cardinality({i \in 1 .. Len(l) : l[i][2] = t})

\* C1: every scene returned by get_scene_list, for both values of
\* always_include_end, has start < end, and consecutive scenes satisfy
\* end[i] <= start[i+1].
C1_ScenesWellFormed ==
    pc = "idle" =>
        \A always_include_end \in BOOLEAN :
            LET r == get_scene_list(always_include_end)
            IN  r.raised = "None" =>
                    /\ \A i \in 1 .. Len(r.value) : r.value[i][1] < r.value[i][2]
                    /\ \A i \in 1 .. Len(r.value) - 1 : r.value[i][2] <= r.value[i + 1][1]

\* C2: when the ledger of a finished run holds only CUT events,
\* get_scene_list(True) covers the processed span: the first scene starts at
\* the start position, every next scene starts where the previous one ended,
\* and the last scene ends one frame past the last position.
C2_CutsOnlyCoversSpan ==
    (pc = "idle" /\ DOMAIN events /= {} /\ OnlyCutEvents
        /\ start_pos /= None /\ last_pos /= None) =>
        LET r == get_scene_list(TRUE)
            l == r.value
        IN  /\ r.raised = "None"
            /\ Len(l) >= 1
            /\ l[1][1] = Val(start_pos)
            /\ \A i \in 1 .. Len(l) - 1 : l[i + 1][1] = l[i][2]
            /\ l[Len(l)][2] = Val(last_pos) + 1

\* C3: get_scene_list appends at most one scene per distinct timecode: the
\* scenes closed by events end at distinct ledger timecodes, at most one
\* final scene is added, and the number of scenes is at most the number of
\* distinct timecodes plus one.
C3_OneScenePerTimecode ==
    (pc = "idle" /\ get_scene_list(TRUE).raised = "None") =>
        LET closed == get_scene_list(FALSE).value
            all == get_scene_list(TRUE).value
        IN  /\ \A i \in 1 .. Len(closed) : closed[i][2] \in DOMAIN events
            /\ \A t \in DOMAIN events : NumEnding(closed, t) <= 1
            /\ Len(all) <= Len(closed) + 1
            /\ Len(all) <= Cardinality(DOMAIN events) + 1

\* Two CUT events on one frame of a cuts-only run gave one scene ending there.
C3_Witness ==
    /\ pc = "idle"
    /\ only_cuts
    /\ get_scene_list(TRUE).raised = "None"
    /\ \E t \in DOMAIN events :
          /\ Len(events[t]) = 2
          /\ events[t][1].kind = "CUT" /\ events[t][2].kind = "CUT"
          /\ NumEnding(get_scene_list(TRUE).value, t) = 1

\* C4: if the assembly ends out of a scene, get_scene_list(True) appends no
\* trailing scene (it equals get_scene_list(False)), and its last scene ends
\* at the timecode of the OUT event that left the scene: a timecode holding
\* an OUT as its last IN/OUT event, with no IN event after it.
C4_NoTrailingSceneAfterOut ==
    (pc = "idle" /\ DOMAIN events /= {} /\ start_pos /= None
        /\ ~ AssemblyState(events, start_pos, only_cuts).in_scene) =>
        LET r == get_scene_list(TRUE)
            l == r.value
        IN  /\ r.raised = "None"
            /\ r = get_scene_list(FALSE)
            /\ Len(l) > 0 =>
                  LET e == l[Len(l)][2]
                  IN  /\ e \in DOMAIN events
                      /\ \E i \in 1 .. Len(events[e]) :
                            /\ events[e][i].kind = "OUT"
                            /\ \A j \in (i + 1) .. Len(events[e]) : events[e][j].kind = "CUT"
                      /\ \A t \in DOMAIN events : \A i \in 1 .. Len(events[t]) :
                            events[t][i].kind = "IN" => t <= e
            /\ Len(l) = 0 =>
                  /\ ~ only_cuts
                  /\ \A t \in DOMAIN events : \A i \in 1 .. Len(events[t]) :
                        events[t][i].kind /= "IN"

\* IN at 0 and OUT at 1 over the span 0..2 give [(0,1)].
C4_Witness ==
    /\ pc = "idle"
    /\ events = (0 :> <<DetectionEvent("IN", 0, "ctx_a")>>) @@
                (1 :> <<DetectionEvent("OUT", 1, "ctx_a")>>)
    /\ start_pos = Some(0)
    /\ last_pos = Some(2)
    /\ get_scene_list(TRUE).value = << <<0, 1>> >>

\* C5: for minimum_spacing > 1 get_cut_list is the forward greedy selection:
\* ascending cut timecodes, the earliest cut kept, consecutive kept cuts at
\* least minimum_spacing apart, and every dropped cut fewer than
\* minimum_spacing frames after the latest kept cut before it.
C5_GreedySpacing ==
    \A minimum_spacing \in 2 .. MaxSpacing :
        LET r == get_cut_list(minimum_spacing)
            kept == {r[i] : i \in 1 .. Len(r)}
        IN  /\ kept \subseteq CutTimecodes
            /\ \A i \in 1 .. Len(r) - 1 : r[i + 1] - r[i] >= minimum_spacing
            /\ CutTimecodes /= {} => (Len(r) >= 1 /\ \A x \in CutTimecodes : r[1] <= x)
            /\ \A c \in CutTimecodes \ kept :
                   \E k \in kept :
                       /\ k < c
                       /\ \A x \in kept : x < c => x <= k
                       /\ c - k < minimum_spacing

\* Cuts at 0, 1 and 2 with spacing 2 give [0, 2]: 1 is dropped, 2 is kept.
C5_Witness ==
    /\ CutTimecodes = {0, 1, 2}
    /\ get_cut_list(2) = <<0, 2>>

\* C6: for minimum_spacing <= 1 get_cut_list returns, ascending and without
\* duplicates, exactly the timecodes holding at least one CUT event.
C6_UnfilteredCuts ==
    \A minimum_spacing \in -1 .. 1 :
        LET r == get_cut_list(minimum_spacing)
        IN  /\ \A i \in 1 .. Len(r) - 1 : r[i] < r[i + 1]
            /\ {r[i] : i \in 1 .. Len(r)} =
                   {t \in DOMAIN events :
                       \E i \in 1 .. Len(events[t]) : events[t][i].kind = "CUT"}

\* A CUT stored next to an IN, in a ledger that yields no scene, is listed.
C6_Witness ==
    /\ pc = "idle"
    /\ start_pos /= None
    /\ get_scene_list(TRUE) = [raised |-> "None", value |-> <<>>]
    /\ \E t \in DOMAIN events :
          /\ Len(events[t]) = 2
          /\ events[t][1].kind = "CUT" /\ events[t][2].kind = "OUT"
          /\ get_cut_list(1) = <<t>>
          /\ get_cut_list(0) = <<t>>

\* C7: transform_events_to_cuts(None) turns every event's kind into CUT and
\* leaves the keys, the number and order of events at each key, and each
\* event's time and context unchanged.
C7_TransformKeepsEvents ==
    [][(call'.op = "transform_events_to_cuts" /\ call'.fade_bias = None) =>
          /\ raised' = "None"
          /\ DOMAIN events' = DOMAIN events
          /\ \A t \in DOMAIN events :
                /\ Len(events'[t]) = Len(events[t])
                /\ \A i \in 1 .. Len(events[t]) :
                      /\ events'[t][i].kind = "CUT"
                      /\ events'[t][i].time = events[t][i].time
                      /\ events'[t][i].context = events[t][i].context]_vars

\* After transform_events_to_cuts(None): a timecode with two events of
\* different contexts, in a ledger that held a non-CUT event.
C7_Witness ==
    /\ call.op = "transform_events_to_cuts"
    /\ call.fade_bias = None
    /\ ~ only_cuts
    /\ OnlyCutEvents
    /\ \E t \in DOMAIN events :
          /\ Len(events[t]) = 2
          /\ events[t][1].context = "ctx_b" /\ events[t][2].context = "ctx_a"

C9_DurationAndEndTimeRejected ==
    [][(pc = "idle" /\ call'.op = "detect_scenes"
          /\ call'.duration /= None /\ call'.end_time /= None) =>
          /\ raised' = "ValueError"
          /\ pc' = "idle"
          /\ log' = <<>>
          /\ UNCHANGED <<video, events, start_pos, last_pos>>]_vars

\* The conflict was refused with a detector registered, a frame left to read
\* and frame_skip = 0.
C9_Witness ==
    /\ pc = "idle"
    /\ call.op = "detect_scenes"
    /\ call.duration /= None /\ call.end_time /= None /\ call.frame_skip = 0
    /\ raised = "ValueError"
    /\ Len(detectors) > 0
    /\ video_has_frame(video)

\* C10: detect_scenes with frame_skip > 0 raises ValueError before any frame
\* is read whenever a metric cache is attached, passed at construction or
\* created by add_detector.
C10_FrameSkipRejectedWithCache ==
    [][(pc = "idle" /\ call'.op = "detect_scenes"
          /\ call'.frame_skip > 0 /\ stats_manager /= None) =>
          /\ raised' = "ValueError"
          /\ pc' = "idle"
          /\ log' = <<>>
          /\ UNCHANGED video]_vars

\* frame_skip was refused with a cache created by add_detector, on a call
\* with no other invalid argument and a frame left to read.
C10_Witness ==
    /\ pc = "idle"
    /\ call.op = "detect_scenes"
    /\ call.frame_skip > 0 /\ call.duration = None /\ call.end_time = None
    /\ raised = "ValueError"
    /\ stats_manager = Some("created")
    /\ video_has_frame(video)

\* Number of frames the running call took from the source by read, and by grab.
FramesRead(l) == Cardinality({i \in 1 .. Len(l) : l[i][1] = "read" /\ l[i][3] = TRUE})
FramesGrabbed(l) == Cardinality({i \in 1 .. Len(l) : l[i][1] = "grab" /\ l[i][2] = TRUE})

\* C11: detect_scenes with a negative duration or a negative end_time raises
\* ValueError before any frame is read: the call does not start the frame
\* loop, and the manager and the source are as they were.
C11_NegativeArgsRejected ==
    [][(pc = "idle" /\ call'.op = "detect_scenes"
          /\ \/ (call'.duration /= None /\ Val(call'.duration) < 0)
             \/ (call'.end_time /= None /\ Val(call'.end_time) < 0)) =>
          /\ raised' = "ValueError" /\ pc' = "idle" /\ log' = <<>>
          /\ UNCHANGED <<manager, video>>]_vars

C11_Witness ==
    /\ pc = "idle" /\ call.op = "detect_scenes"
    /\ call.duration = Some(-1) /\ call.end_time = None /\ call.frame_skip = 0
    /\ raised = "ValueError"
    /\ Len(detectors) >= 1 /\ video_has_frame(video)

\* C12: when the frame loop of detect_scenes ends normally (end boundary or
\* end of stream, also when no frame was read), the calls made last before
\* the return are one post_process call per registered detector, in
\* registration order, each with the recorded start position and the final
\* source position; no post_process call precedes them, so none precedes a
\* process_frame call; and the events they returned are in the ledger.
C12_PostProcessOncePerDetector ==
    [][(pc = "post_process" /\ pc' = "idle") =>
          LET n == Len(detectors)
              k == Len(log)
          IN  /\ start_pos /= None
              /\ k >= n
              /\ \A i \in 1 .. n :
                    LET e == log[k - n + i]
                    IN  /\ e[1] = "post_process" /\ e[2] = i
                        /\ e[3] = Val(start_pos) /\ e[4] = video_position(video)
                        /\ \A j \in 1 .. Len(e[5]) :
                              /\ e[5][j].time \in DOMAIN events'
                              /\ \E q \in 1 .. Len(events'[e[5][j].time]) :
                                    events'[e[5][j].time][q] = e[5][j]
              /\ \A j \in 1 .. k - n : log[j][1] /= "post_process"]_vars

C12_Witness ==
    /\ pc = "post_process" /\ locals.det_i > Len(detectors)
    /\ Len(detectors) = 2
    /\ log[1] = <<"read", TRUE, FALSE>>
    /\ log[Len(log)][1] = "post_process" /\ log[Len(log)][5] /= <<>>

\* C13: a progress bar opened by detect_scenes is closed by the step that
\* leaves the call, whether the call returns or an error raised by the read,
\* by a detector or by the callback ends it; and an error raised inside the
\* loop ends the call and is the error the caller receives.
C13_ProgressBarReleased ==
    [][/\ (pc /= "idle" /\ pc' = "idle") =>
             (progress_bar = "open" => progress_bar' = "closed")
       /\ locals.exc /= "None" =>
             (pc' = "idle" /\ raised' = locals.exc /\ ret' = None)]_vars

C13_Witness ==
    /\ pc = "idle" /\ call.op = "detect_scenes" /\ call.show_progress
    /\ raised = "CallbackError"
    /\ progress_bar = "closed"

\* The ledger of a run over frames 0 .. n - 1 in which every detector gets
\* the metric values of every frame.
RECURSIVE FreshLedger(_, _, _, _)
FreshLedger(ev, dets, n, t) ==
    IF t >= n THEN ev
    ELSE FreshLedger(
             add_events_dict(ev, [i \in 1 .. (IF t \in CutFrames THEN Len(dets) ELSE 0) |->
                                     DetectionEvent("CUT", t, "ctx_a")]),
             dets, n, t + 1)

\* C14: a run of detect_scenes over the whole source with metric-driven
\* detectors, started on an empty ledger, ends with the ledger of a run that
\* computes every metric, whether the cache was empty or held the metrics of
\* these frames when it started.
C14_ReplayEqualsFresh ==
    [][(pc /= "idle" /\ pc' = "idle") =>
          /\ raised' = "None"
          /\ events' = FreshLedger(<<>>, detectors, video.length, 0)]_vars

\* C15: a call of get_scene_list leaves the ledger, the only-cuts flag, the
\* start position and the last position as they were, and right after a call
\* the same call made again returns what the first one returned.
C15_GetSceneListPure ==
    /\ [][(pc = "idle" /\ call'.op = "get_scene_list") =>
              UNCHANGED <<events, only_cuts, start_pos, last_pos>>]_vars
    /\ []((pc = "idle" /\ call.op = "get_scene_list") =>
              LET again == get_scene_list(call.always_include_end)
              IN  /\ raised = again.raised
                  /\ again.raised = "None" => ret = Some(again.value))

C15_Witness ==
    /\ pc = "idle" /\ call.op = "get_scene_list" /\ call.always_include_end
    /\ raised = "None"
    /\ Len(Val(ret)) >= 2

\* The orders in which the events of a set can arrive.
Arrivals(E) ==
    {b \in [1 .. Cardinality(E) -> E] :
        \A i, j \in 1 .. Cardinality(E) : i /= j => b[i] /= b[j]}

\* C16: when every event of the ledger has a timecode of its own, adding
\* the same events to an empty ledger in any other order gives the scene
\* lists and cut lists the manager returns now, whatever the order and the
\* number of add_events calls that built the ledger.
C16_ArrivalOrderIndependent ==
    (pc = "idle" /\ \A t \in DOMAIN events : Len(events[t]) = 1) =>
        \A batch \in Arrivals({events[t][1] : t \in DOMAIN events}) :
            LET ev == add_events_dict(<<>>, batch)
                flag == add_events_only_cuts(TRUE, batch)
            IN  /\ \A always_include_end \in BOOLEAN :
                      get_scene_list_of(ev, start_pos, last_pos, flag, always_include_end)
                          = get_scene_list(always_include_end)
                /\ \A minimum_spacing \in 0 .. MaxSpacing :
                      get_cut_list_of(ev, minimum_spacing) = get_cut_list(minimum_spacing)

C16_Witness ==
    /\ pc = "idle" /\ call.op = "add_events"
    /\ Cardinality(DOMAIN events) >= 3
    /\ \A t \in DOMAIN events : Len(events[t]) = 1
    /\ ~ only_cuts
    /\ start_pos /= None /\ last_pos /= None
    /\ Len(get_scene_list(TRUE).value) >= 2

\* C17: detect_scenes returns the number of frames the source advanced
\* during the call: the frames it read, decoded or not, plus the frames it
\* grabbed for frame_skip; that is 0 when the source had no frame left.
C17_ReturnsFramesAdvanced ==
    [][(pc = "post_process" /\ pc' = "idle") =>
          /\ ret' = Some(FramesRead(log) + FramesGrabbed(log))
          /\ ret' = Some(video'.frame_number - locals.start_frame_num)]_vars

C17_Witness ==
    /\ pc = "post_process" /\ locals.det_i > Len(detectors)
    /\ \E i \in 1 .. Len(log) : log[i] = <<"read", FALSE, TRUE>>
    /\ \E i \in 1 .. Len(log) : log[i] = <<"read", TRUE, TRUE>>
    /\ FramesRead(log) = video.length

\* The ledger that keeps, of every timecode, the event added last.
LastOnly(ev) == [t \in DOMAIN ev |-> <<ev[t][Len(ev[t])]>>]

\* C18: get_scene_list uses only the last event of every timecode: it
\* returns what it returns on the ledger that keeps just the event added last
\* at every timecode.
C18_OnlyLastEventUsed ==
    pc = "idle" =>
        \A always_include_end \in BOOLEAN :
            get_scene_list(always_include_end)
                = get_scene_list_of(LastOnly(events), start_pos, last_pos, only_cuts,
                                    always_include_end)

\* C19: a non-empty list returned by get_scene_list(False) has its last
\* scene end at the greatest timecode of the ledger.
C19_LastSceneEndsOnLastEvent ==
    (pc = "idle" /\ get_scene_list(FALSE).raised = "None"
        /\ get_scene_list(FALSE).value /= <<>>) =>
        LET l == get_scene_list(FALSE).value
        IN  \A t \in DOMAIN events : t <= l[Len(l)][2]

\* C20: a run of detect_scenes with duration d hands at most d frames to
\* the detectors and returns at most d.
C20_DurationBoundsFrames ==
    [][(pc = "post_process" /\ pc' = "idle" /\ call.duration /= None) =>
          /\ FramesRead(log) <= Val(call.duration)
          /\ Val(ret') <= Val(call.duration)]_vars

\* The timecodes of the ledger that hold an IN event.
InTimecodes == {t \in DOMAIN events : \E i \in 1 .. Len(events[t]) : events[t][i].kind = "IN"}

\* C21: the only-cuts flag is true after construction and after clear(); it
\* is false once the ledger holds an IN or OUT event, so a true flag means
\* that every event of the ledger is a CUT; only clear() sets it back to
\* true; and get_scene_list starts in a scene exactly when the flag is true:
\* with the flag true the first scene starts at the start position, with the
\* flag false the first scene starts at the timecode of an IN event.
C21_OnlyCutsFlag ==
    /\ [](call.op = "__init__" => only_cuts)
    /\ [](only_cuts => OnlyCutEvents)
    /\ [][(pc = "idle" /\ call'.op = "clear") => only_cuts']_vars
    /\ [][(only_cuts' /\ ~ only_cuts) => call'.op = "clear"]_vars
    /\ []((pc = "idle" /\ DOMAIN events /= {} /\ get_scene_list(TRUE).raised = "None") =>
             LET l == get_scene_list(TRUE).value
             IN  IF only_cuts
                 THEN Len(l) >= 1 /\ l[1][1] = Val(start_pos)
                 ELSE l /= <<>> => l[1][1] \in InTimecodes)

C21_Witness ==
    /\ pc = "idle" /\ call.op = "add_events"
    /\ ~ only_cuts
    /\ InTimecodes = {1}
    /\ \E t \in DOMAIN events : HasCut(events, t) /\ t < 1
    /\ start_pos = Some(0) /\ last_pos /= None
    /\ Len(get_scene_list(TRUE).value) >= 1

\* C22: processing of frame index n is required if and only if no metric
\* cache is attached or at least one registered detector reports that its
\* metrics are missing from the cache for n.
C22_RequiredIfAnyMissing ==
    \A n \in 0 .. NumFrames :
        _is_processing_required(n) <=>
            \/ stats_manager = None
            \/ \E i \in 1 .. Len(detectors) :
                   detector_is_processing_required(detectors[i], n)

\* Whether the loop of detect_scenes has to decode the next frame.
DecodeRequired ==
    \/ _is_processing_required(video.frame_number)
    \/ _is_processing_required(video.frame_number + 1)

\* C23: an iteration of the loop of detect_scenes decodes the frame exactly
\* when processing is required for the current or for the next frame index;
\* otherwise it advances the source by one frame without decoding, and the
\* frame image of the loop is left as it was.
C23_DecodeIffRequired ==
    [][(pc = "loop" /\ pc' \in {"dispatch", "post_process"}) =>
          /\ log' = Append(log, <<"read", DecodeRequired, pc' = "dispatch">>)
          /\ pc' = "dispatch" =>
                /\ video'.frame_number = video.frame_number + 1
                /\ locals'.frame_im = IF DecodeRequired THEN Some(video.frame_number)
                                       ELSE locals.frame_im
          /\ pc' = "post_process" => video' = video]_vars

C23_Witness ==
    /\ pc = "dispatch"
    /\ Len(log) >= 2
    /\ log[Len(log)] = <<"read", TRUE, TRUE>>
    /\ ~ _is_processing_required(video.frame_number - 1)
    /\ \E i \in 1 .. Len(log) - 1 : log[i] = <<"read", FALSE, TRUE>>

RECURSIVE Dispatched(_)
\* The positions of the frames the running call has handed to a detector,
\* in the order of the calls of process_frame.
Dispatched(l) ==
    IF l = <<>> THEN <<>>
    ELSE IF Head(l)[1] = "process_frame" THEN <<Head(l)[3]>> \o Dispatched(Tail(l))
         ELSE Dispatched(Tail(l))

\* C24: with an end boundary, detect_scenes hands no frame to the detectors
\* whose position is greater than the boundary, wherever the source starts,
\* and no other frame is dispatched after the first dispatched frame whose
\* position has reached the boundary.
C24_NoDispatchPastBoundary ==
    locals.end_time /= None =>
        LET b == Val(locals.end_time)
            d == Dispatched(log)
        IN  /\ \A i \in 1 .. Len(d) : d[i] <= b
            /\ \A i, j \in 1 .. Len(d) : (i < j /\ d[i] >= b) => d[j] = d[i]

\* C25: the start position is recorded once.  The first iteration of the
\* first detect_scenes call after construction or clear() sets it to the
\* position the source has after the read (the position of the source
\* when the read fails), and no later frame and no later call changes it:
\* only clear() unsets it.
C25_StartRecordedOnce ==
    /\ [][(pc = "loop" /\ pc' \in {"dispatch", "post_process"}) =>
             start_pos' = IF start_pos = None THEN Some(video_position(video'))
                          ELSE start_pos]_vars
    /\ [][start_pos' /= start_pos =>
             \/ start_pos = None /\ pc = "loop"
             \/ start_pos' = None /\ pc = "idle" /\ call'.op = "clear"]_vars
    /\ [][(pc = "idle" /\ call'.op = "clear") => start_pos' = None]_vars

C25_Witness ==
    /\ pc = "dispatch"
    /\ call.op = "detect_scenes"
    /\ locals.start_frame_num > 0
    /\ start_pos = Some(0)
    /\ video_position(video) > 1

\* The last n entries of a log.
LastEntries(l, n) == SubSeq(l, Len(l) - n + 1, Len(l))

\* C26: detect_scenes drives one frame at a time through all detectors.  A
\* call of process_frame goes to the next detector in registration order
\* with the current position, its events are in the ledger when the call is
\* over, and the source does not move; the source moves on only when every
\* registered detector was called once, in registration order, for the
\* position that was read.
C26_OneFrameThroughAllDetectors ==
    /\ [][(pc = "dispatch" /\ pc' = "dispatch") =>
             /\ locals.det_i <= Len(detectors)
             /\ locals'.det_i = locals.det_i + 1
             /\ video' = video /\ detectors' = detectors
             /\ log' = Append(log, <<"process_frame", locals.det_i,
                                     video_position(video), locals.frame_im>>)
             /\ \E batch \in DetectorOutputs(video_position(video)) :
                    /\ events' = add_events_dict(events, batch)
                    /\ only_cuts' = add_events_only_cuts(only_cuts, batch)]_vars
    /\ [][(pc = "dispatch" /\ pc' \in {"loop", "post_process"}) =>
             LET n == Len(detectors)
             IN  /\ Len(log) >= n + 1
                 /\ log[Len(log) - n][1] = "read"
                 /\ \A i \in 1 .. n :
                        LET e == LastEntries(log, n)[i]
                        IN  e[1] = "process_frame" /\ e[2] = i
                            /\ e[3] = video_position(video)]_vars

C26_Witness ==
    /\ pc = "dispatch"
    /\ Len(detectors) = 2
    /\ locals.det_i = 3
    /\ video_position(video) = 1
    /\ DOMAIN events = {1}
    /\ Len(events[1]) = 2

RECURSIVE DetectorPositions(_, _)
\* The positions of the frames the running call has handed to detector i.
DetectorPositions(l, i) ==
    IF l = <<>> THEN <<>>
    ELSE IF Head(l)[1] = "process_frame" /\ Head(l)[2] = i
         THEN <<Head(l)[3]>> \o DetectorPositions(Tail(l), i)
         ELSE DetectorPositions(Tail(l), i)

\* C27: a run with frame_skip = N > 0 hands every detector the frame it
\* starts on and then every (N+1)-th frame; the frames between them are taken
\* from the source by at most N grabs per dispatched frame and reach no
\* detector; and when the source ends during the skip the run still returns,
\* after one post_process call per detector.
C27_FrameSkipDispatch ==
    [][(pc = "post_process" /\ pc' = "idle" /\ call.frame_skip > 0) =>
          LET N == call.frame_skip
              n == Len(detectors)
              k == Len(log)
          IN  /\ \A i \in 1 .. n :
                    LET p == DetectorPositions(log, i)
                    IN  /\ Len(p) = FramesRead(log)
                        /\ \A q \in 1 .. Len(p) :
                               p[q] = locals.start_frame_num + (q - 1) * (N + 1)
              /\ FramesGrabbed(log) <= N * FramesRead(log)
              /\ (call.end_time = None /\ call.duration = None) =>
                    /\ ~ video_has_frame(video)
                    /\ FramesGrabbed(log) >= N * (FramesRead(log) - 1)
              /\ raised' = "None" /\ ret' /= None
              /\ k >= n /\ \A i \in 1 .. n : log[k - n + i][1] = "post_process"]_vars

C27_Witness ==
    /\ pc = "post_process" /\ locals.det_i > Len(detectors)
    /\ call.frame_skip = 1
    /\ Len(detectors) = 2
    /\ DetectorPositions(log, 2) = <<0, 2>>
    /\ \E i \in 1 .. Len(log) : log[i] = <<"grab", FALSE>>

\* C28: detect_scenes terminates.  An iteration of the loop takes a frame
\* from the source or leaves the loop, the dispatch and the post-processing
\* go through the detectors once, the source never moves backwards or past
\* its end during a call, and a call that has started returns.
C28_Terminates ==
    /\ [](video.frame_number <= video.length)
    /\ [][pc = "loop" =>
             \/ pc' = "dispatch" /\ video'.frame_number = video.frame_number + 1
             \/ pc' = "post_process" /\ video' = video]_vars
    /\ [][pc = "dispatch" =>
             \/ /\ pc' = "dispatch" /\ video' = video
                /\ locals.det_i <= Len(detectors) /\ locals'.det_i = locals.det_i + 1
             \/ /\ pc' \in {"loop", "post_process"}
                /\ video'.frame_number >= video.frame_number]_vars
    /\ [][pc = "post_process" =>
             \/ /\ pc' = "post_process" /\ video' = video
                /\ locals.det_i <= Len(detectors) /\ locals'.det_i = locals.det_i + 1
             \/ pc' = "idle"]_vars
    /\ (pc /= "idle") ~> (pc = "idle" /\ raised = "None" /\ ret /= None)

C28_Witness ==
    /\ pc = "idle" /\ call.op = "detect_scenes" /\ ret = Some(3)
    /\ stats_manager /= None
    /\ Len(detectors) = 2
    /\ \A n \in 0 .. 2 : ~ _is_processing_required(n)

\* C29: the ledger maps no timecode to an empty sequence and keeps every
\* event under the key equal to its time; and the events of a timecode stay
\* in the order in which they were added: a step other than clear() keeps
\* every event at its place in the sequence of its timecode, with its time
\* and context, and its kind unless it turns into CUT, so that new events
\* come after the events that were there.
C29_LedgerWellFormed ==
    /\ [](\A t \in DOMAIN events :
             /\ events[t] /= <<>>
             /\ \A i \in 1 .. Len(events[t]) : events[t][i].time = t)
    /\ [][~ (pc = "idle" /\ call'.op = "clear") =>
             \A t \in DOMAIN events :
                 /\ t \in DOMAIN events'
                 /\ Len(events'[t]) >= Len(events[t])
                 /\ \A i \in 1 .. Len(events[t]) :
                        /\ events'[t][i].time = events[t][i].time
                        /\ events'[t][i].context = events[t][i].context
                        /\ events'[t][i].kind \in {events[t][i].kind, "CUT"}]_vars
    /\ [][(pc = "idle" /\ call'.op = "clear") => events' = <<>>]_vars

C29_Witness ==
    /\ pc = "idle" /\ call.op = "detect_scenes"
    /\ \E t \in DOMAIN events :
          /\ Len(events[t]) = 2
          /\ events[t][1].kind = "CUT" /\ events[t][2].kind = "OUT"
    /\ ret /= None

\* C30: clear() empties the ledger, sets the only-cuts flag and unsets the
\* start position; the cache and its metrics, the registered detectors, the
\* downscale settings, the last position and the source are as they were.
C30_ClearFrame ==
    [][(pc = "idle" /\ call'.op = "clear") =>
          /\ events' = <<>> /\ only_cuts' = TRUE /\ start_pos' = None
          /\ raised' = "None"
          /\ UNCHANGED <<detectors, stats_manager, metrics, downscale, auto_downscale,
                         last_pos, video>>]_vars

C30_Witness ==
    /\ pc = "idle" /\ call.op = "clear"
    /\ events = <<>> /\ only_cuts /\ start_pos = None
    /\ last_pos = Some(2)
    /\ detectors /= <<>> /\ stats_manager /= None /\ metrics /= {}
    /\ downscale = 2 /\ ~ auto_downscale

\* C31: add_detector ends with the detector appended to the registered
\* detectors and raises nothing, also when the metric keys of the detector
\* are registered already; a cache is created exactly when none exists and
\* the detector needs one, and the keys are registered with the cache.
C31_AddDetectorAppends ==
    [][(pc = "idle" /\ call'.op = "add_detector") =>
          /\ raised' = "None"
          /\ Len(detectors') = Len(detectors) + 1
          /\ SubSeq(detectors', 1, Len(detectors)) = detectors
          /\ LET d == detectors'[Len(detectors')]
             IN  /\ stats_manager' = IF stats_manager = None /\ d.requires_stats
                                      THEN Some("created") ELSE stats_manager
                 /\ stats_manager' /= None => d.metric_keys \subseteq registered_metrics'
                 /\ registered_metrics \subseteq registered_metrics']_vars

\* After the second detector with the metric key of the first was added to
\* the cache that the first created.
C31_Witness ==
    /\ pc = "idle" /\ call.op = "add_detector" /\ raised = "None"
    /\ Len(detectors) = 2
    /\ detectors[1].requires_stats /\ detectors[1].stats_manager = Some("created")
    /\ detectors[2].metric_keys = detectors[1].metric_keys
    /\ detectors[2].metric_keys /= {}
    /\ registered_metrics = detectors[1].metric_keys

\* C32: the factor a run with auto-downscale uses is max(1, width \div W)
\* for W = DEFAULT_MIN_WIDTH, and for a frame width of at least W the
\* effective width, width \div factor, lies between W and 1.5 * W.
C32_AutoDownscaleRange ==
    (pc /= "idle" /\ auto_downscale) =>
        LET W == DEFAULT_MIN_WIDTH
            w == video.frame_width
            f == locals.downscale_factor
        IN  /\ f = IF w \div W > 1 THEN w \div W ELSE 1
            /\ w >= W => (W <= w \div f /\ 2 * (w \div f) <= 3 * W)

\* C33: the configured downscale factor is an integer of at least 1 in
\* every state: the setter refuses a value below 1 with ValueError and keeps
\* the stored factor, and stores the integer part of any other value; and a
\* run uses the configured factor when auto-downscale is disabled, and the
\* factor computed from the frame width alone when it is enabled.
C33_ConfiguredDownscale ==
    /\ [](downscale \in Nat /\ downscale >= 1)
    /\ [][(pc = "idle" /\ call'.op = "downscale") =>
             LET num == call'.value[1]
                 den == call'.value[2]
             IN  IF num < den
                 THEN raised' = "ValueError" /\ downscale' = downscale
                 ELSE /\ raised' = "None"
                      /\ downscale' * den <= num /\ num < (downscale' + 1) * den]_vars
    /\ [][(pc = "idle" /\ pc' = "loop") =>
             locals'.downscale_factor =
                 IF auto_downscale
                 THEN compute_downscale_factor(video.frame_width, DEFAULT_MIN_WIDTH)
                 ELSE downscale]_vars
    /\ [][(pc = "loop" /\ pc' = "dispatch") =>
             locals'.frame_im_width =
                 subsample(video.frame_width, locals.downscale_factor)]_vars

C33_Witness ==
    /\ pc = "dispatch"
    /\ ~ auto_downscale /\ downscale = 2
    /\ video.frame_width = 300
    /\ locals.downscale_factor = 2 /\ locals.frame_im_width = 150
    /\ raised = "None"

\* The assembly state of get_scene_list just before it processes the i-th
\* event of timecode t.
StateBefore(t, i) ==
    LET st == ProcessTimecodes([in_scene |-> only_cuts, last_event_pos |-> Val(start_pos),
                                scene_list |-> <<>>, added_new_scene |-> FALSE],
                               events, sorted({u \in DOMAIN events : u < t}))
    IN  ProcessEventsAt([st EXCEPT !.added_new_scene = FALSE], SubSeq(events[t], 1, i - 1), t)

\* The ledger without the i-th event of timecode t.
WithoutEvent(ev, t, i) ==
    IF Len(ev[t]) = 1 THEN [u \in DOMAIN ev \ {t} |-> ev[u]]
    ELSE [ev EXCEPT ![t] = SubSeq(@, 1, i - 1) \o SubSeq(@, i + 1, Len(@))]

C35_NoStaleFrame ==
    \A i \in 1 .. Len(log) :
        log[i][1] = "process_frame" => (log[i][4] = None \/ log[i][4] = Some(log[i][3]))

\* C36: between the calls of the public operations get_scene_list returns a
\* list, for both values of always_include_end: the start position is set
\* whenever the ledger is not empty, and the last position is set whenever
\* the final scene is appended.
C36_GetSceneListNeverFails ==
    pc = "idle" =>
        /\ DOMAIN events /= {} => start_pos /= None
        /\ \A always_include_end \in BOOLEAN :
               get_scene_list(always_include_end).raised = "None"

\* C37: when process_frame of a detector raises, the call ends with that
\* error: the failing call is the last access of the run, so it is not
\* retried and no post_process hook runs; the ledger keeps the events merged
\* before the failure; and the last position is changed by nothing but the
\* return of a call, so it keeps the value it had before the call.
C37_DetectorErrorPropagates ==
    /\ [][(pc = "dispatch" /\ pc' = "finally" /\ locals'.exc = "DetectorError") =>
             /\ events' = events /\ last_pos' = last_pos /\ video' = video
             /\ log'[Len(log')][1] = "process_frame"]_vars
    /\ [][(pc = "finally" /\ locals.exc = "DetectorError"
             /\ log[Len(log)][1] = "process_frame") =>
             /\ pc' = "idle" /\ raised' = "DetectorError" /\ ret' = None
             /\ events' = events /\ last_pos' = last_pos
             /\ \A i \in 1 .. Len(log) - 1 :
                    /\ log[i][1] /= "post_process"
                    /\ ~ (log[i][1] = "process_frame" /\ log[i][2] = log[Len(log)][2]
                            /\ log[i][3] = log[Len(log)][3])]_vars
    /\ [][last_pos' /= last_pos => (pc = "post_process" /\ pc' = "idle")]_vars

C37_Witness ==
    /\ pc = "finally" /\ locals.exc = "DetectorError"
    /\ log[Len(log)][1] = "process_frame" /\ log[Len(log)][3] = 1
    /\ Len(detectors) = 2
    /\ DOMAIN events = {0, 1}
    /\ start_pos = Some(0) /\ last_pos = None

\* C38: transform_events_to_cuts(None) changes event kinds only: the
\* only-cuts flag, the start position and the last position are as they
\* were, so the ledger holds only CUT events afterwards while a flag that was
\* false is still false.
C38_TransformKeepsFlag ==
    [][(pc = "idle" /\ call'.op = "transform_events_to_cuts" /\ call'.fade_bias = None) =>
          /\ only_cuts' = only_cuts
          /\ start_pos' = start_pos /\ last_pos' = last_pos
          /\ DOMAIN events' = DOMAIN events
          /\ \A t \in DOMAIN events' : \A i \in 1 .. Len(events'[t]) :
                events'[t][i].kind = "CUT"
          /\ UNCHANGED <<detectors, stats_manager, metrics, video>>]_vars

\* After transform_events_to_cuts(None) on the ledger of a finished run that
\* held an IN or OUT event.
C38_Witness ==
    /\ pc = "idle" /\ call.op = "transform_events_to_cuts" /\ call.fade_bias = None
    /\ ~ only_cuts /\ OnlyCutEvents /\ DOMAIN events /= {}
    /\ start_pos = Some(0) /\ last_pos = Some(2)

\* C39: every registered detector is attached to the metric cache of the
\* manager, also a detector registered before the cache was created.
C39_DetectorsShareCache ==
    \A i \in 1 .. Len(detectors) : detectors[i].stats_manager = stats_manager

\* Start timecodes of every scene of a scene list but the first.
LaterSceneStarts(scene_list) ==
    [i \in 1 .. Len(scene_list) - 1 |-> scene_list[i + 1][1]]

\* C40: after a run, while the only-cuts flag is set and every cut lies
\* within the processed span, get_cut_list with minimum_spacing <= 1 is the
\* list of the start timecodes of every scene but the first of
\* get_scene_list(always_include_end=True).
C40_CutsAreSceneStarts ==
    (/\ pc = "idle" /\ only_cuts /\ start_pos /= None /\ last_pos /= None
     /\ \A t \in CutTimecodes : Val(start_pos) <= t /\ t <= Val(last_pos))
    => /\ get_scene_list(TRUE).raised = "None"
       /\ \A minimum_spacing \in 0 .. 1 :
             get_cut_list(minimum_spacing) = LaterSceneStarts(get_scene_list(TRUE).value)

C40_Witness ==
    /\ pc = "idle" /\ only_cuts /\ start_pos = Some(0) /\ last_pos = Some(2)
    /\ DOMAIN events = {1, 2} /\ Len(events[1]) = 2
    /\ get_cut_list(1) = <<1, 2>>
    /\ get_scene_list(TRUE).value = <<(<<0, 1>>), (<<1, 2>>), (<<2, 3>>)>>
====
